---- MODULE Spec2Model ----
(***************************************************************************)
(* Model of the stock observer service (services/stock_services.py) and of *)
(* the time series analyser (time_series/time_series/analysis.py).         *)
(*                                                                         *)
(* Spec is the observer: a controller calling start() and stop(), and the  *)
(* worker threads running __run.  LiveSpec is Spec with the scheduling     *)
(* assumptions.  AnSpec is an analyser on its own: it is constructed on a  *)
(* table drawn from Series and one of its operations is called.            *)
(*                                                                         *)
(* Numbers: prices and averages are exact rationals <<num, den>> with      *)
(* den > 0 in lowest terms; floating point rounding is not modelled.       *)
(* Timestamps are integers counted in seconds.                             *)
(* pd.concat([data, last_data]) is modelled as appending the fetched       *)
(* sample as one row at the end of the buffer.                             *)
(* The window of a session is a row count.  The output file is append-only *)
(* and never read: it is held as the writer of each of its lines, and the  *)
(* text of the last line of each running worker is held in written.        *)
(***************************************************************************)
EXTENDS Integers, Sequences, FiniteSets, TLC

\* ------------------------------------------------------------------------
\* Bounds of the model
\* ------------------------------------------------------------------------
MaxSessions == 2
MaxPolls == 2
MaxTs == 3
MaxInit == 2
\* The series given to an analyser: timestamps, values and durations.
MaxStamp == 4
MaxValue == 3
MaxDur == 2

Workers == 1..MaxSessions
Timestamps == 1..MaxTs
\* The windows a session is started with: not positive, one row, two rows.
Windows == {0, 1, 2}

\* The quote series the source serves: the price of the observed column at
\* each timestamp, here a fixed series that is not monotone.
Price(ts) == IF ts % 2 = 1 THEN ts + 1 ELSE ts - 1

\* A row of the quote table: timestamp (index) and the observed column.
Samples == {[ts |-> t, val |-> Price(t)] : t \in Timestamps}

\* ------------------------------------------------------------------------
\* Exact rational arithmetic
\* ------------------------------------------------------------------------
Abs(a) == IF a < 0 THEN -a ELSE a

Sgn(a) == IF a < 0 THEN -1 ELSE IF a > 0 THEN 1 ELSE 0

RECURSIVE GCD(_, _)
GCD(a, b) == IF b = 0 THEN a ELSE GCD(b, a % b)

\* n/d with d # 0, brought to lowest terms with a positive denominator.
RNorm(n, d) ==
    LET g == GCD(Abs(n), Abs(d))
        s == IF d < 0 THEN -1 ELSE 1
    IN  <<(s * n) \div g, (s * d) \div g>>

RInt(a) == <<a, 1>>
\* Sums and products cancel common factors before they multiply.
RAdd(p, q) ==
    LET g == GCD(p[2], q[2])
    IN  RNorm(p[1] * (q[2] \div g) + q[1] * (p[2] \div g),
              (p[2] \div g) * q[2])
RSub(p, q) == RAdd(p, <<-q[1], q[2]>>)
RMul(p, q) ==
    LET g1 == GCD(Abs(p[1]), q[2])
        g2 == GCD(Abs(q[1]), p[2])
    IN  RNorm((p[1] \div g1) * (q[1] \div g2),
              (p[2] \div g2) * (q[2] \div g1))
\* q # 0
RDiv(p, q) == RMul(p, RNorm(q[2], q[1]))

RECURSIVE RSum(_)
RSum(s) == IF s = <<>> THEN RInt(0) ELSE RAdd(Head(s), RSum(Tail(s)))

\* np.average of a non-empty array
Average(s) == RDiv(RSum(s), RInt(Len(s)))

\* np.std squared: the population variance of a non-empty array
Variance(s) ==
    LET m == Average(s)
    IN  Average([i \in 1..Len(s) |-> RMul(RSub(s[i], m), RSub(s[i], m))])

\* Python slice s[a:b] on a 0-based array held in a 1-based sequence.
Slice(s, a, b) == SubSeq(s, a + 1, b)

Last(s) == s[Len(s)]

\* The index and the observed column of a table, the column as rationals.
Index(data) == Slice([i \in 1..Len(data) |-> data[i].ts], 0, Len(data))
Column(data) ==
    Slice([i \in 1..Len(data) |-> RInt(data[i].val)], 0, Len(data))

\* ------------------------------------------------------------------------
\* TimeSeriesAnalyser: the operations of the summary chain
\* ------------------------------------------------------------------------
\* A moving average whose window starts one row early.
CalcMovavgIntWide(values, window) ==
    LET movavgs ==
            [i \in 1..Len(values) |->
                LET start_pos == IF (i - 1) - window < 0 THEN 0
                                 ELSE (i - 1) - window
                IN  Average(Slice(values, start_pos, i))]
    IN  Slice(movavgs, 0, Len(values))

\* _calc_movarg_int: trailing window of `window` rows, shorter at the start.
\* values is a sequence of rationals; the result has the same length.
CalcMovavgInt(values, window) ==
    LET movavgs ==
            [i \in 1..Len(values) |->
                LET start_pos == IF (i - 1) - window + 1 < 0 THEN 0
                                 ELSE (i - 1) - window + 1
                IN  Average(Slice(values, start_pos, i))]
    IN  Slice(movavgs, 0, Len(values))

\* differentiate: n-1 rows; row i is the change from row i to row i+1
\* divided by the number of base intervals between their timestamps.
\* A zero gap divides by zero, which numpy turns into a non-finite value.
Differentiate(index, values, interval) ==
    [i \in 1..(Len(values) - 1) |->
        LET dv == RSub(values[i + 1], values[i])
            dt == index[i + 1] - index[i]
        IN  IF dt = 0
            THEN [fin |-> FALSE, v |-> RInt(Sgn(dv[1]))]
            ELSE [fin |-> TRUE, v |-> RDiv(RMul(dv, RInt(interval)), RInt(dt))]]

\* An entry that correlates the segment x with itself.
AutocorAtUnshifted(values, i) ==
    LET n == Len(values)
        x == Slice(values, i, n)
        var_x == Variance(x)
    IN  IF var_x[1] = 0
        THEN [nan |-> TRUE, sgn |-> 0, sq |-> RInt(0)]
        ELSE [nan |-> FALSE, sgn |-> 1, sq |-> RInt(1)]

\* An entry that is NaN only when both segments are constant.
AutocorAtNanBoth(values, i) ==
    LET n == Len(values)
        x == Slice(values, i, n)
        y == Slice(values, 0, n - i)
        avg_xy == Average([j \in 1..Len(x) |-> RMul(x[j], y[j])])
        cov == RSub(avg_xy, RMul(Average(x), Average(y)))
        den2 == RMul(Variance(x), Variance(y))
    IN  IF Variance(x)[1] = 0 /\ Variance(y)[1] = 0
        THEN [nan |-> TRUE, sgn |-> 0, sq |-> RInt(0)]
        ELSE IF den2[1] = 0
        THEN [nan |-> FALSE, sgn |-> Sgn(cov[1]), sq |-> RInt(0)]
        ELSE [nan |-> FALSE, sgn |-> Sgn(cov[1]),
              sq |-> RDiv(RMul(cov, cov), den2)]

\* An entry whose numerator is avg(x*y), without avg(x)*avg(y) taken off.
AutocorAtUncentred(values, i) ==
    LET n == Len(values)
        x == Slice(values, i, n)
        y == Slice(values, 0, n - i)
        avg_xy == Average([j \in 1..Len(x) |-> RMul(x[j], y[j])])
        den2 == RMul(Variance(x), Variance(y))
    IN  IF den2[1] = 0
        THEN [nan |-> TRUE, sgn |-> 0, sq |-> RInt(0)]
        ELSE [nan |-> FALSE, sgn |-> Sgn(avg_xy[1]),
              sq |-> RDiv(RMul(avg_xy, avg_xy), den2)]

\* One entry of calc_autocor, for lag i (0-based):
\* (avg(x*y) - avg(x)*avg(y)) / (std(x)*std(y)) with x = values[i:n] and
\* y = values[0:n-i].  The quotient r is held exactly as its sign and its
\* square cov^2 / (var(x)*var(y)); a zero denominator gives NaN.
AutocorAt(values, i) ==
    LET n == Len(values)
        x == Slice(values, i, n)
        y == Slice(values, 0, n - i)
        avg_x == Average(x)
        avg_y == Average(y)
        avg_xy == Average([j \in 1..Len(x) |-> RMul(x[j], y[j])])
        cov == RSub(avg_xy, RMul(avg_x, avg_y))
        den2 == RMul(Variance(x), Variance(y))
    IN  IF den2[1] = 0
        THEN [nan |-> TRUE, sgn |-> 0, sq |-> RInt(0)]
        ELSE [nan |-> FALSE, sgn |-> Sgn(cov[1]),
              sq |-> RDiv(RMul(cov, cov), den2)]

\* calc_autocor: one entry per lag 0..n-2.
CalcAutocor(values) ==
    [l \in 1..(Len(values) - 1) |-> AutocorAt(values, l - 1)]

\* ------------------------------------------------------------------------
\* StockObserver: the summary line
\* ------------------------------------------------------------------------
\* __calc_write_str raises when the window is not positive (ValueError of
\* _calc_movarg_int) and when a table of the chain is empty, so that its
\* iloc[-1] raises: the moving average of an empty buffer, or the
\* differential and autocorrelation of a one-row moving average.
CalcRaises(data, window) == window < 1 \/ Len(data) < 2

\* A line whose Autocor field is the first entry of calc_autocor.
CalcWriteStrFirstLag(data, interval, window) ==
    LET n == Len(data)
        movavg == CalcMovavgInt(Column(data), window)
        diff == Differentiate(Index(data), movavg, interval)
        autocor == CalcAutocor(movavg)
    IN  [date |-> data[n].ts,
         val |-> data[n].val,
         movavg |-> movavg[n],
         diff |-> diff[n - 1],
         autocor |-> autocor[1]]

\* __calc_write_str / __get_write_str for a buffer on which it does not
\* raise.  The line is held as the values its fields render.  iloc[-1] is
\* row n of the moving average and row n-1 of the two tables derived from it.
CalcWriteStr(data, interval, window) ==
    LET n == Len(data)
        movavg == CalcMovavgInt(Column(data), window)
        diff == Differentiate(Index(data), movavg, interval)
        autocor == CalcAutocor(movavg)
    IN  [date |-> data[n].ts,
         val |-> data[n].val,
         movavg |-> movavg[n],
         diff |-> diff[n - 1],
         autocor |-> autocor[n - 1]]

\* ------------------------------------------------------------------------
\* TimeSeriesAnalyser: its operations on a table
\* ------------------------------------------------------------------------
\* A table is a sequence of rows [ts, val].  An operation returns the table
\* create_dataframe builds, or raises an exception.
Ok(rows) == [kind |-> "ok", rows |-> rows]
Raise(exc) == [kind |-> exc, rows |-> <<>>]

\* The observed column as the integers the table holds.
Values(data) == Slice([i \in 1..Len(data) |-> data[i].val], 0, Len(data))

\* __init__ with interval=None: the loop that keeps the smallest gap.
RECURSIVE MinGapFrom(_, _, _)
MinGapFrom(index, i, cur) ==
    IF i > Len(index) THEN cur
    ELSE LET g == index[i] - index[i - 1]
         IN  MinGapFrom(index, i + 1, IF cur > g THEN g ELSE cur)

\* A constructor that takes the first gap for the base interval.
InitIntervalFirstGap(data, interval) ==
    IF interval # 0 THEN interval
    ELSE IF Len(data) < 2 THEN 0
    ELSE data[2].ts - data[1].ts

\* __init__: the base interval of the analyser, the one supplied or, with
\* interval=None (0), the smallest gap between consecutive timestamps.
\* data.index[1] of a table with fewer than two rows raises IndexError: 0.
InitInterval(data, interval) ==
    IF interval # 0 THEN interval
    ELSE IF Len(data) < 2 THEN 0
    ELSE MinGapFrom(Index(data), 3, data[2].ts - data[1].ts)

\* np.argmin / np.argmax of a non-empty array: the position (from 1) of
\* the first occurrence of the smallest / largest value.
RECURSIVE ArgMinFrom(_, _, _)
ArgMinFrom(values, i, best) ==
    IF i > Len(values) THEN best
    ELSE ArgMinFrom(values, i + 1,
                    IF values[i] < values[best] THEN i ELSE best)

RECURSIVE ArgMaxFrom(_, _, _)
ArgMaxFrom(values, i, best) ==
    IF i > Len(values) THEN best
    ELSE ArgMaxFrom(values, i + 1,
                    IF values[i] > values[best] THEN i ELSE best)

\* An argmin that returns the last occurrence of the smallest value.
ArgMinLast(values) ==
    CHOOSE i \in 1..Len(values) :
        /\ \A j \in 1..Len(values) : values[i] <= values[j]
        /\ \A j \in (i + 1)..Len(values) : values[i] < values[j]

ArgMin(values) == ArgMinFrom(values, 2, 1)

ArgMax(values) == ArgMaxFrom(values, 2, 1)

\* find_min / find_max: one row; argmin / argmax of an empty array raises
\* ValueError.
FindMin(data) ==
    IF Len(data) = 0 THEN Raise("ValueError")
    ELSE LET index_min == ArgMin(Values(data))
         IN  Ok(<<[ts |-> data[index_min].ts, v |-> data[index_min].val]>>)

FindMax(data) ==
    IF Len(data) = 0 THEN Raise("ValueError")
    ELSE LET index_max == ArgMax(Values(data))
         IN  Ok(<<[ts |-> data[index_max].ts, v |-> data[index_max].val]>>)

\* _find_glb_extremes: the row of find_min tagged Min, then the row of
\* find_max tagged Max.
FindGlbExtremes(data) ==
    LET min_data == FindMin(data)
        max_data == FindMax(data)
    IN  IF min_data.kind # "ok" THEN min_data
        ELSE IF max_data.kind # "ok" THEN max_data
        ELSE Ok(<<[ts |-> min_data.rows[1].ts, v |-> min_data.rows[1].v,
                   type |-> "Min"],
                  [ts |-> max_data.rows[1].ts, v |-> max_data.rows[1].v,
                   type |-> "Max"]>>)

\* The loop of _find_loc_extremes with the test for Max made first.
RECURSIVE LocScanMaxFirst(_, _)
LocScanMaxFirst(values, i) ==
    IF i >= Len(values) - 1 THEN <<>>
    ELSE LET found ==
                 IF /\ values[i + 1] >= values[i]
                    /\ values[i + 1] >= values[i + 2]
                 THEN <<[i |-> i, type |-> "Max"]>>
                 ELSE IF /\ values[i + 1] <= values[i]
                         /\ values[i + 1] <= values[i + 2]
                 THEN <<[i |-> i, type |-> "Min"]>>
                 ELSE <<>>
         IN  found \o LocScanMaxFirst(values, i + 1)

\* The loop of _find_loc_extremes comparing each value with its successor
\* only.
RECURSIVE LocScanOneSided(_, _)
LocScanOneSided(values, i) ==
    IF i >= Len(values) - 1 THEN <<>>
    ELSE LET found ==
                 IF values[i + 1] <= values[i + 2]
                 THEN <<[i |-> i, type |-> "Min"]>>
                 ELSE IF values[i + 1] >= values[i + 2]
                 THEN <<[i |-> i, type |-> "Max"]>>
                 ELSE <<>>
         IN  found \o LocScanOneSided(values, i + 1)

\* The loop of _find_loc_extremes from index i (from 0) on: the indexes
\* appended and their types.
RECURSIVE LocScan(_, _)
LocScan(values, i) ==
    IF i >= Len(values) - 1 THEN <<>>
    ELSE LET found ==
                 IF /\ values[i + 1] <= values[i]
                    /\ values[i + 1] <= values[i + 2]
                 THEN <<[i |-> i, type |-> "Min"]>>
                 ELSE IF /\ values[i + 1] >= values[i]
                         /\ values[i + 1] >= values[i + 2]
                 THEN <<[i |-> i, type |-> "Max"]>>
                 ELSE <<>>
         IN  found \o LocScan(values, i + 1)

FindLocExtremesMaxFirst(data) ==
    LET found == LocScanMaxFirst(Values(data), 1)
    IN  Ok(Slice([k \in 1..Len(found) |->
                    [ts |-> data[found[k].i + 1].ts,
                     v |-> data[found[k].i + 1].val,
                     type |-> found[k].type]], 0, Len(found)))

\* _find_loc_extremes: the rows of the indexes found, with their types.
FindLocExtremes(data) ==
    LET found == LocScan(Values(data), 1)
    IN  Ok(Slice([k \in 1..Len(found) |->
                    [ts |-> data[found[k].i + 1].ts,
                     v |-> data[found[k].i + 1].val,
                     type |-> found[k].type]], 0, Len(found)))

\* find_extremes(glb)
FindExtremes(data, glb) ==
    IF glb THEN FindGlbExtremes(data) ELSE FindLocExtremes(data)

\* differentiate as a table: row i is indexed by the timestamp of row i.
DifferentiateTable(data, interval) ==
    LET diffs == Differentiate(Index(data), Column(data), interval)
    IN  Ok(Slice([i \in 1..(Len(data) - 1) |->
                    [ts |-> data[i].ts, v |-> diffs[i]]],
                 0, IF Len(data) = 0 THEN 0 ELSE Len(data) - 1))

\* An inner loop that leaves out the row exactly one window away.
RECURSIVE WindowBackStrict(_, _, _, _, _)
WindowBackStrict(index, values, win, i, j) ==
    IF j < 1 THEN <<0, 0>>
    ELSE IF j = i \/ index[i] - index[j] < win
         THEN LET rest == WindowBackStrict(index, values, win, i, j - 1)
              IN  <<values[j] + rest[1], 1 + rest[2]>>
         ELSE <<0, 0>>

\* The inner loop of _calc_movarg_timedelta for row i, from row j down:
\* <<sum_prices, n>>.  It stops at the first row further than the window.
RECURSIVE WindowBack(_, _, _, _, _)
WindowBack(index, values, win, i, j) ==
    IF j < 1 THEN <<0, 0>>
    ELSE IF index[i] - index[j] <= win
         THEN LET rest == WindowBack(index, values, win, i, j - 1)
              IN  <<values[j] + rest[1], 1 + rest[2]>>
         ELSE <<0, 0>>

\* _calc_movarg_timedelta: sum_prices / n of each row; 0 / 0 raises
\* ZeroDivisionError.
CalcMovavgTimedelta(data, win) ==
    LET n == Len(data)
        acc == Slice([i \in 1..n |->
                        WindowBack(Index(data), Values(data), win, i, i)],
                     0, n)
    IN  IF \E i \in 1..n : acc[i][2] = 0
        THEN Raise("ZeroDivisionError")
        ELSE Ok(Slice([i \in 1..n |->
                         [ts |-> data[i].ts,
                          v |-> RNorm(acc[i][1], acc[i][2])]], 0, n))

\* calc_movavg: a window is <<"int", rows>> or <<"td", seconds>>.
CalcMovavg(data, win) ==
    IF win[1] = "int"
    THEN IF win[2] < 1
         THEN Raise("ValueError")
         ELSE LET movavgs == CalcMovavgInt(Column(data), win[2])
              IN  Ok(Slice([i \in 1..Len(data) |->
                              [ts |-> data[i].ts, v |-> movavgs[i]]],
                           0, Len(data)))
    ELSE CalcMovavgTimedelta(data, win[2])

\* calc_autocor as a table: np.empty([n-1]) of an empty table raises
\* ValueError; row l is indexed by the timestamp of row l.
CalcAutocorTable(data) ==
    IF Len(data) = 0 THEN Raise("ValueError")
    ELSE LET values == Column(data)
         IN  Ok(Slice([l \in 1..(Len(data) - 1) |->
                         [ts |-> data[l].ts, v |-> AutocorAt(values, l - 1)]],
                      0, Len(data) - 1))

\* ------------------------------------------------------------------------
\* services/stock_datas.py
\* ------------------------------------------------------------------------
\* An interval string is held as <<number, suffix>>.
IntervalStrs == {<<1, "m">>, <<1, "q">>}

\* convert_str_to_sec: the number of seconds, or 0 for the None that the
\* function returns by falling off its end on an unknown suffix.
ConvertStrToSec(interval) ==
    LET n == interval[1]
        u == interval[2]
    IN  IF u = "s" THEN n
        ELSE IF u = "m" THEN 60 * n
        ELSE IF u = "h" THEN 3600 * n
        ELSE IF u = "d" THEN 3600 * 24 * n
        ELSE IF u = "w" THEN 3600 * 24 * 7 * n
        ELSE IF u = "mo" THEN 3600 * 24 * 30 * n
        ELSE IF u = "y" THEN 3600 * 24 * 365 * n
        ELSE 0

\* get_period_data: the quote source returns a table indexed by strictly
\* increasing timestamps, possibly empty.
Histories ==
    {h \in UNION {[1..n -> Samples] : n \in 0..MaxInit} :
        \A i \in 1..(Len(h) - 1) : h[i].ts < h[i + 1].ts}

\* ------------------------------------------------------------------------
\* State
\* ------------------------------------------------------------------------
VARIABLES
    interval_str,   \* StockObserver.__interval
    thread,         \* StockObserver.__thread: 0 is None, else the worker
    stop_token,     \* StockObserver.__stop_token: 0 is None, else the token
    is_stopped,     \* StopToken.__is_stopped of the token of each session
    nsessions,      \* number of Thread objects created by start()
    cpc,            \* position of the controller: "idle" or "joining"
    result,         \* outcome of the controller's latest start()/stop()
    wpc,            \* position of each worker thread in __run
    window,         \* __run argument window of each worker
    token,          \* __run argument token of each worker: a token, 0 unset
    data,           \* __run local data: the buffer
    last_data,      \* __run local last_data: <<>> before the first fetch
    write_str,      \* __run local write_str: <<>> is None
    error,          \* __run local error: the RuntimeError of a handler
    raised,         \* the exception that left __run, "" if none
    logged,         \* whether the worker logged its fatal error
    cyc,            \* what the current poll cycle of each worker has done
    written,        \* the last line each running worker has appended
    sink,           \* the output file: the writer of each line, in order
    npolls,         \* number of get_last_data calls made so far
    an_data,        \* TimeSeriesAnalyser.__data: the table of an analyser
    an_given,       \* the interval argument of its constructor: 0 is None
    an_interval,    \* TimeSeriesAnalyser.__interval: 0 before construction
    an_call,        \* the latest call made on the analyser
    an_result,      \* what that call returned or raised
    dataframes      \* JoinedDataframe._dataframes: the tables to join

obsVars == <<interval_str, thread, stop_token, is_stopped, nsessions, cpc,
             result, wpc, window, token, data, last_data, write_str, error,
             raised, logged, cyc, written, sink, npolls>>
anVars == <<an_data, an_given, an_interval, an_call, an_result, dataframes>>
vars == <<obsVars, anVars>>

ctlVars == <<thread, stop_token, is_stopped, nsessions, cpc, result>>
runVars == <<wpc, window, token, data, last_data, write_str, error, raised,
            logged, cyc, written>>

NoCycle == [same |-> FALSE, calcs |-> 0, grew |-> FALSE, cached |-> FALSE]

NoCall == [op |-> "none", arg |-> <<>>, join |-> FALSE]

\* The observer after its construction.
ObserverInit ==
    /\ interval_str \in IntervalStrs
    /\ thread = 0
    /\ stop_token = 0
    /\ is_stopped = [w \in Workers |-> FALSE]
    /\ nsessions = 0
    /\ cpc = "idle"
    /\ result = "none"
    /\ wpc = [w \in Workers |-> "unborn"]
    /\ window = [w \in Workers |-> 0]
    /\ token = [w \in Workers |-> 0]
    /\ data = [w \in Workers |-> <<>>]
    /\ last_data = [w \in Workers |-> <<>>]
    /\ write_str = [w \in Workers |-> <<>>]
    /\ error = [w \in Workers |-> ""]
    /\ raised = [w \in Workers |-> ""]
    /\ logged = [w \in Workers |-> FALSE]
    /\ cyc = [w \in Workers |-> NoCycle]
    /\ written = [w \in Workers |-> <<>>]
    /\ sink = <<>>
    /\ npolls = 0

\* No analyser has been built.
AnalyserIdle ==
    /\ an_data = <<>>
    /\ an_given = 0
    /\ an_interval = 0
    /\ an_call = NoCall
    /\ an_result = Ok(<<>>)
    /\ dataframes = <<>>

Init == ObserverInit /\ AnalyserIdle

\* ------------------------------------------------------------------------
\* StockObserver.start and StockObserver.stop, called by the controller
\* ------------------------------------------------------------------------
\* `self.__thread is not None`
SessionExists == thread # 0

\* Thread.join returns once the thread has terminated.
Terminated(w) == wpc[w] \in {"exited", "crashed"}

\* start() on an observer that holds a thread: raises, changes nothing.
StartAlreadyRunning ==
    /\ cpc = "idle"
    /\ SessionExists
    /\ result' = "AlreadyRunning"
    /\ UNCHANGED <<anVars, interval_str, thread, stop_token, is_stopped, nsessions, cpc,
                   runVars, sink, npolls>>

\* start() without the test of __thread.
StartNoCheck ==
    /\ cpc = "idle"
    /\ nsessions < MaxSessions
    /\ \E win \in Windows :
        LET w == nsessions + 1
        IN  /\ nsessions' = w
            /\ stop_token' = w
            /\ is_stopped' = [is_stopped EXCEPT ![w] = FALSE]
            /\ thread' = w
            /\ window' = [window EXCEPT ![w] = win]
            /\ token' = [token EXCEPT ![w] = w]
            /\ wpc' = [wpc EXCEPT ![w] = "begin"]
    /\ result' = "started"
    /\ UNCHANGED <<anVars, interval_str, cpc, data, last_data, write_str, error, raised,
                   logged, cyc, written, sink, npolls>>

\* start(): new StopToken, new Thread, and the thread starts.
Start ==
    /\ cpc = "idle"
    /\ ~SessionExists
    /\ nsessions < MaxSessions
    /\ \E win \in Windows :
        LET w == nsessions + 1
        IN  /\ nsessions' = w
            /\ stop_token' = w
            /\ is_stopped' = [is_stopped EXCEPT ![w] = FALSE]
            /\ thread' = w
            /\ window' = [window EXCEPT ![w] = win]
            /\ token' = [token EXCEPT ![w] = w]
            /\ wpc' = [wpc EXCEPT ![w] = "begin"]
    /\ result' = "started"
    /\ UNCHANGED <<anVars, interval_str, cpc, data, last_data, write_str, error, raised,
                   logged, cyc, written, sink, npolls>>

\* start(): new StopToken, new Thread, but Thread.start() raises; start()
\* raises "could not start" and keeps the Thread object in __thread.
StartSpawnFails ==
    /\ cpc = "idle"
    /\ ~SessionExists
    /\ nsessions < MaxSessions
    /\ \E win \in Windows :
        LET w == nsessions + 1
        IN  /\ nsessions' = w
            /\ stop_token' = w
            /\ is_stopped' = [is_stopped EXCEPT ![w] = FALSE]
            /\ thread' = w
            /\ window' = [window EXCEPT ![w] = win]
            /\ token' = [token EXCEPT ![w] = w]
            /\ wpc' = [wpc EXCEPT ![w] = "unstarted"]
    /\ result' = "SpawnFailed"
    /\ UNCHANGED <<anVars, interval_str, cpc, data, last_data, write_str, error, raised,
                   logged, cyc, written, sink, npolls>>

\* stop() on an observer that holds no thread: warning only.
StopNoSession ==
    /\ cpc = "idle"
    /\ ~SessionExists
    /\ result' = "warned"
    /\ UNCHANGED <<anVars, interval_str, thread, stop_token, is_stopped, nsessions, cpc,
                   runVars, sink, npolls>>

\* stop() whose token flips at each call.
StopSignalToggle ==
    /\ cpc = "idle"
    /\ SessionExists
    /\ is_stopped' = [is_stopped EXCEPT ![stop_token] = ~@]
    /\ IF wpc[thread] = "unstarted"
       THEN cpc' = "idle" /\ result' = "StopRaised"
       ELSE cpc' = "joining" /\ result' = result
    /\ UNCHANGED <<anVars, interval_str, thread, stop_token, nsessions, runVars, sink,
                   npolls>>

\* stop() on an observer that holds a thread: sets the token, then joins.
\* Joining a thread that was never started raises RuntimeError.
StopSignal ==
    /\ cpc = "idle"
    /\ SessionExists
    /\ is_stopped' = [is_stopped EXCEPT ![stop_token] = TRUE]
    /\ IF wpc[thread] = "unstarted"
       THEN cpc' = "idle" /\ result' = "StopRaised"
       ELSE cpc' = "joining" /\ result' = result
    /\ UNCHANGED <<anVars, interval_str, thread, stop_token, nsessions, runVars, sink,
                   npolls>>

\* stop() whose join does not wait for the thread.
StopJoinNoWait ==
    /\ cpc = "joining"
    /\ thread' = 0
    /\ cpc' = "idle"
    /\ result' = "stopped"
    /\ UNCHANGED <<anVars, interval_str, stop_token, is_stopped, nsessions, runVars,
                   sink, npolls>>

\* stop() that returns without forgetting the thread.
StopJoinKeepThread ==
    /\ cpc = "joining"
    /\ Terminated(thread)
    /\ cpc' = "idle"
    /\ result' = "stopped"
    /\ UNCHANGED <<anVars, interval_str, thread, stop_token, is_stopped, nsessions,
                   runVars, sink, npolls>>

\* stop(): the join returns, the thread is forgotten, stop() returns.
StopJoin ==
    /\ cpc = "joining"
    /\ Terminated(thread)
    /\ thread' = 0
    /\ cpc' = "idle"
    /\ result' = "stopped"
    /\ UNCHANGED <<anVars, interval_str, stop_token, is_stopped, nsessions, runVars,
                   sink, npolls>>

\* ------------------------------------------------------------------------
\* StockObserver.__run, executed by the worker thread w (its token is w)
\* ------------------------------------------------------------------------
\* The thread ends: normally ("exited") or by an exception leaving __run
\* ("crashed", with the exception in raised).  Its locals are gone.
Finish(w, pc, exc, lg) ==
    /\ wpc' = [wpc EXCEPT ![w] = pc]
    /\ raised' = [raised EXCEPT ![w] = exc]
    /\ logged' = [logged EXCEPT ![w] = lg]
    /\ window' = [window EXCEPT ![w] = 0]
    /\ token' = [token EXCEPT ![w] = 0]
    /\ data' = [data EXCEPT ![w] = <<>>]
    /\ last_data' = [last_data EXCEPT ![w] = <<>>]
    /\ write_str' = [write_str EXCEPT ![w] = <<>>]
    /\ cyc' = [cyc EXCEPT ![w] = NoCycle]
    /\ written' = [written EXCEPT ![w] = <<>>]

\* An except handler builds its RuntimeError and goes on to self.stop().
Handle(w, err) ==
    /\ wpc' = [wpc EXCEPT ![w] = "istop"]
    /\ error' = [error EXCEPT ![w] = err]

\* interval = timedelta(seconds=convert_str_to_sec(...)); write_str = None.
\* timedelta(seconds=None) raises outside every try block.
Begin(w) ==
    /\ wpc[w] = "begin"
    /\ IF ConvertStrToSec(interval_str) = 0
       THEN Finish(w, "crashed", "Convert", FALSE)
       ELSE /\ wpc' = [wpc EXCEPT ![w] = "load"]
            /\ UNCHANGED <<raised, logged, window, token, data, last_data,
                           write_str, cyc, written>>
    /\ UNCHANGED <<anVars, interval_str, ctlVars, error, sink, npolls>>

\* data = get_period_data(...) returns a table.
Load(w) ==
    /\ wpc[w] = "load"
    /\ \E h \in Histories : data' = [data EXCEPT ![w] = h]
    /\ wpc' = [wpc EXCEPT ![w] = "check"]
    /\ UNCHANGED <<anVars, interval_str, ctlVars, window, token, last_data, write_str,
                   error, raised, logged, cyc, written, sink, npolls>>

\* get_period_data raises.
LoadFails(w) ==
    /\ wpc[w] = "load"
    /\ Handle(w, "InitLoad")
    /\ UNCHANGED <<anVars, interval_str, ctlVars, window, token, data, last_data,
                   write_str, raised, logged, cyc, written, sink, npolls>>

\* The iterations of a run are capped: when MaxPolls of them have begun,
\* the loop test is not reached again until the token is set.
TestReached(w) == npolls < MaxPolls \/ is_stopped[token[w]]

\* A loop that never tests the token.
CheckIgnoresToken(w) ==
    /\ wpc[w] = "check"
    /\ npolls < MaxPolls
    /\ wpc' = [wpc EXCEPT ![w] = "fetch"]
    /\ UNCHANGED <<anVars, interval_str, ctlVars, window, token, data, last_data,
                   write_str, error, raised, logged, cyc, written, sink,
                   npolls>>

\* while(not token.is_stopped)
Check(w) ==
    /\ wpc[w] = "check"
    /\ TestReached(w)
    /\ IF is_stopped[token[w]]
       THEN Finish(w, "exited", "", FALSE)
       ELSE /\ wpc' = [wpc EXCEPT ![w] = "fetch"]
            /\ UNCHANGED <<raised, logged, window, token, data, last_data,
                           write_str, cyc, written>>
    /\ UNCHANGED <<anVars, interval_str, ctlVars, error, sink, npolls>>

\* last_data = get_last_data(...) returns a row; the summary line is
\* computed if none is cached.  An exception of the computation is caught
\* by the same handler as one of the fetch.
Fetch(w) ==
    /\ wpc[w] = "fetch"
    /\ npolls' = npolls + 1
    /\ \E s \in Samples :
        LET same == last_data[w] # <<>> /\ last_data[w][1].ts = s.ts
        IN  /\ last_data' = [last_data EXCEPT ![w] = <<s>>]
            /\ IF write_str[w] = <<>>
               THEN IF CalcRaises(data[w], window[w])
                    THEN /\ Handle(w, "LastLoad")
                         /\ UNCHANGED <<write_str, cyc>>
                    ELSE /\ write_str' = [write_str EXCEPT ![w] =
                              <<CalcWriteStr(data[w],
                                  ConvertStrToSec(interval_str), window[w])>>]
                         /\ cyc' = [cyc EXCEPT ![w] =
                              [same |-> same, calcs |-> 1, grew |-> FALSE,
                               cached |-> FALSE]]
                         /\ wpc' = [wpc EXCEPT ![w] = "append"]
                         /\ UNCHANGED error
               ELSE /\ cyc' = [cyc EXCEPT ![w] =
                         [same |-> same, calcs |-> 0, grew |-> FALSE,
                          cached |-> TRUE]]
                    /\ wpc' = [wpc EXCEPT ![w] = "append"]
                    /\ UNCHANGED <<write_str, error>>
    /\ UNCHANGED <<anVars, interval_str, ctlVars, window, token, data, raised, logged,
                   written, sink>>

\* A handler that swallows the fetch failure and goes on to the next cycle.
FetchFailsRetry(w) ==
    /\ wpc[w] = "fetch"
    /\ npolls' = npolls + 1
    /\ wpc' = [wpc EXCEPT ![w] = "sleep"]
    /\ error' = [error EXCEPT ![w] = "LastLoad"]
    /\ UNCHANGED <<anVars, interval_str, ctlVars, window, token, data, last_data,
                   write_str, raised, logged, cyc, written, sink>>

\* get_last_data raises.
FetchFails(w) ==
    /\ wpc[w] = "fetch"
    /\ npolls' = npolls + 1
    /\ Handle(w, "LastLoad")
    /\ UNCHANGED <<anVars, interval_str, ctlVars, window, token, data, last_data,
                   write_str, raised, logged, cyc, written, sink>>

\* A test that takes every fetched row for a new one.
IsNewAlways(ts, last_ts) == TRUE

\* `last_data.name != data.index[-1]`
IsNew(ts, last_ts) == ts # last_ts

\* The conditional append without the recomputation of the line.
AppendNewStale(w) ==
    /\ wpc[w] = "append"
    /\ LET s == last_data[w][1]
       IN  IF s.ts # Last(data[w]).ts
           THEN /\ data' = [data EXCEPT ![w] = Append(data[w], s)]
                /\ cyc' = [cyc EXCEPT ![w].grew = TRUE]
           ELSE UNCHANGED <<data, cyc>>
    /\ wpc' = [wpc EXCEPT ![w] = "write"]
    /\ UNCHANGED <<anVars, interval_str, ctlVars, window, token, last_data, write_str,
                   error, raised, logged, written, sink, npolls>>

\* if last_data.name != data.index[-1]: append the row and recompute the
\* line.  An exception of this computation is outside every try block.
AppendNew(w) ==
    /\ wpc[w] = "append"
    /\ LET s == last_data[w][1]
           nd == Append(data[w], s)
       IN  IF IsNew(s.ts, Last(data[w]).ts)
           THEN IF CalcRaises(nd, window[w])
                THEN Finish(w, "crashed", "Calc", FALSE)
                ELSE /\ data' = [data EXCEPT ![w] = nd]
                     /\ write_str' = [write_str EXCEPT ![w] =
                          <<CalcWriteStr(nd, ConvertStrToSec(interval_str),
                              window[w])>>]
                     /\ cyc' = [cyc EXCEPT ![w].calcs = @ + 1,
                                           ![w].grew = TRUE]
                     /\ wpc' = [wpc EXCEPT ![w] = "write"]
                     /\ UNCHANGED <<raised, logged, window, token, last_data,
                                    written>>
           ELSE /\ wpc' = [wpc EXCEPT ![w] = "write"]
                /\ UNCHANGED <<raised, logged, window, token, data, last_data,
                               write_str, cyc, written>>
    /\ UNCHANGED <<anVars, interval_str, ctlVars, error, sink, npolls>>

\* with open(path, 'a') as file: file.write(write_str + "\n")
Write(w) ==
    /\ wpc[w] = "write"
    /\ sink' = Append(sink, w)
    /\ written' = [written EXCEPT ![w] = write_str[w]]
    /\ wpc' = [wpc EXCEPT ![w] = "sleep"]
    /\ UNCHANGED <<anVars, interval_str, ctlVars, window, token, data, last_data,
                   write_str, error, raised, logged, cyc, npolls>>

\* open or write raises.
WriteFails(w) ==
    /\ wpc[w] = "write"
    /\ Handle(w, "Write")
    /\ UNCHANGED <<anVars, interval_str, ctlVars, window, token, data, last_data,
                   write_str, raised, logged, cyc, written, sink, npolls>>

\* time.sleep(...) returns.
Sleep(w) ==
    /\ wpc[w] = "sleep"
    /\ wpc' = [wpc EXCEPT ![w] = "check"]
    /\ UNCHANGED <<anVars, interval_str, ctlVars, window, token, data, last_data,
                   write_str, error, raised, logged, cyc, written, sink,
                   npolls>>

\* The rest of an except handler: self.stop(); logger.error(error);
\* raise error.  stop() runs in the worker thread: without a thread it
\* warns and returns; otherwise it sets the token and joins __thread, and
\* joining the current thread (or a thread never started) raises
\* RuntimeError, which leaves stop(), the handler and __run at once.
InternalStop(w) ==
    /\ wpc[w] = "istop"
    /\ IF ~SessionExists
       THEN /\ Finish(w, "crashed", error[w], TRUE)
            /\ UNCHANGED <<thread, is_stopped>>
       ELSE /\ is_stopped' = [is_stopped EXCEPT ![stop_token] = TRUE]
            /\ IF thread = w \/ wpc[thread] = "unstarted"
               THEN /\ Finish(w, "crashed", "JoinSelf", FALSE)
                    /\ UNCHANGED thread
               ELSE /\ Terminated(thread)
                    /\ thread' = 0
                    /\ Finish(w, "crashed", error[w], TRUE)
    /\ UNCHANGED <<anVars, interval_str, stop_token, nsessions, cpc, result, error,
                   sink, npolls>>

Next ==
    \/ StartAlreadyRunning
    \/ Start
    \/ StartSpawnFails
    \/ StopNoSession
    \/ StopSignal
    \/ StopJoin
    \/ \E w \in Workers : Begin(w)
    \/ \E w \in Workers : Load(w)
    \/ \E w \in Workers : LoadFails(w)
    \/ \E w \in Workers : Check(w)
    \/ \E w \in Workers : Fetch(w)
    \/ \E w \in Workers : FetchFails(w)
    \/ \E w \in Workers : AppendNew(w)
    \/ \E w \in Workers : Write(w)
    \/ \E w \in Workers : WriteFails(w)
    \/ \E w \in Workers : Sleep(w)
    \/ \E w \in Workers : InternalStop(w)

Spec == Init /\ [][Next]_vars

\* The order of the statements of __run: its prologue, the statements of
\* one iteration of the loop from the fetch to the loop test, and its ends.
Rank(pc) ==
    CASE pc = "unborn" -> 0
      [] pc = "unstarted" -> 0
      [] pc = "begin" -> 1
      [] pc = "load" -> 2
      [] pc = "fetch" -> 3
      [] pc = "append" -> 4
      [] pc = "write" -> 5
      [] pc = "sleep" -> 6
      [] pc = "check" -> 7
      [] pc = "istop" -> 8
      [] pc = "exited" -> 9
      [] pc = "crashed" -> 9

\* The positions of a worker thread in __run.
Positions ==
    {"unborn", "unstarted", "begin", "load", "check", "fetch", "append",
     "write", "sleep", "istop", "exited", "crashed"}

\* The worker thread w is not blocked: it is at a statement of __run that
\* can complete.  The join of the handler's stop() raises at once or
\* waits for the thread it joins.
Runnable(w) ==
    \/ wpc[w] \in {"begin", "load", "fetch", "append", "write", "sleep"}
    \/ wpc[w] = "check" /\ TestReached(w)
    \/ /\ wpc[w] = "istop"
       /\ \/ ~SessionExists
          \/ thread = w
          \/ wpc[thread] = "unstarted"
          \/ Terminated(thread)

\* A step of the worker thread w: every statement of __run moves w on.
Progress(w) ==
    /\ Runnable(w)
    /\ \E pc \in Positions \ {wpc[w]} : wpc' = [wpc EXCEPT ![w] = pc]

\* Scheduling: a thread that is not blocked takes its step (every fetch,
\* write and sleep it waits for returns or raises), and a join whose thread
\* has terminated returns.
LiveSpec ==
    /\ Spec
    /\ \A w \in Workers : WF_wpc(Progress(w))
    /\ WF_vars(StopJoin)

\* ------------------------------------------------------------------------
\* A TimeSeriesAnalyser on its own: construction and calls
\* ------------------------------------------------------------------------
Stamps == 1..MaxStamp
Durations == (-1)..MaxDur
\* The interval argument of the constructor: None, or two seconds.
Givens == {0, 2}
MovavgWindows ==
    {<<"int", k>> : k \in Windows} \cup {<<"td", d>> : d \in Durations}

\* The elements of a set of timestamps in increasing order.
RECURSIVE Ordered(_)
Ordered(S) ==
    IF S = {} THEN <<>>
    ELSE LET m == CHOOSE x \in S : \A y \in S : x <= y
         IN  <<m>> \o Ordered(S \ {m})

\* The tables of a time series: strictly increasing timestamps, any values.
Series ==
    UNION {{[i \in 1..Cardinality(S) |->
                [ts |-> Ordered(S)[i], val |-> f[Ordered(S)[i]]]] :
            f \in [S -> 1..MaxValue]} : S \in SUBSET Stamps}

AnInit ==
    /\ ObserverInit
    /\ interval_str = <<1, "m">>
    /\ an_data \in Series
    /\ an_given \in Givens
    /\ an_interval = 0
    /\ an_call = NoCall
    /\ an_result = Ok(<<>>)
    /\ dataframes = <<>>

\* The analyser exists and no operation has been called on it yet.  The
\* operations leave the analyser as it is, so each of them is applied to
\* the analyser as constructed.
Constructed == an_call.op = "__init__" /\ an_interval # 0

\* TimeSeriesAnalyser(data, interval)
Construct ==
    /\ an_call = NoCall
    /\ an_interval' = InitInterval(an_data, an_given)
    /\ an_call' = [op |-> "__init__", arg |-> an_given, join |-> FALSE]
    /\ an_result' = IF InitInterval(an_data, an_given) = 0
                    THEN Raise("IndexError")
                    ELSE Ok(<<>>)
    /\ UNCHANGED <<obsVars, an_data, an_given, dataframes>>

DoFindMin ==
    /\ Constructed
    /\ an_call' = [op |-> "find_min", arg |-> <<>>, join |-> FALSE]
    /\ an_result' = FindMin(an_data)
    /\ UNCHANGED <<obsVars, an_data, an_given, an_interval, dataframes>>

DoFindMax ==
    /\ Constructed
    /\ an_call' = [op |-> "find_max", arg |-> <<>>, join |-> FALSE]
    /\ an_result' = FindMax(an_data)
    /\ UNCHANGED <<obsVars, an_data, an_given, an_interval, dataframes>>

\* join_dataframes, the wrapper of find_extremes, differentiate,
\* calc_movavg and calc_autocor: the list of JoinedDataframe after a call
\* that returned or raised res.  Without the argument join_cols the pop
\* raises KeyError and the method is simply called; with it the method is
\* called, its table restricted to join_cols is added to the list of the
\* singleton, and the method is called once more for the value returned.
\* An exception of the method leaves the wrapper before the add.
JoinDataframes(res, join, frames) ==
    IF join /\ res.kind = "ok" THEN Append(frames, res.rows) ELSE frames

DoFindExtremes ==
    /\ Constructed
    /\ \E glb \in BOOLEAN, join \in BOOLEAN :
        /\ an_call' = [op |-> "find_extremes", arg |-> glb, join |-> join]
        /\ an_result' = FindExtremes(an_data, glb)
        /\ dataframes' = JoinDataframes(FindExtremes(an_data, glb), join,
                                        dataframes)
    /\ UNCHANGED <<obsVars, an_data, an_given, an_interval>>

DoDifferentiate ==
    /\ Constructed
    /\ \E join \in BOOLEAN :
        /\ an_call' = [op |-> "differentiate", arg |-> <<>>, join |-> join]
        /\ an_result' = DifferentiateTable(an_data, an_interval)
        /\ dataframes' = JoinDataframes(
                             DifferentiateTable(an_data, an_interval), join,
                             dataframes)
    /\ UNCHANGED <<obsVars, an_data, an_given, an_interval>>

DoCalcMovavg ==
    /\ Constructed
    /\ \E win \in MovavgWindows, join \in BOOLEAN :
        /\ an_call' = [op |-> "calc_movavg", arg |-> win, join |-> join]
        /\ an_result' = CalcMovavg(an_data, win)
        /\ dataframes' = JoinDataframes(CalcMovavg(an_data, win), join,
                                        dataframes)
    /\ UNCHANGED <<obsVars, an_data, an_given, an_interval>>

DoCalcAutocor ==
    /\ Constructed
    /\ \E join \in BOOLEAN :
        /\ an_call' = [op |-> "calc_autocor", arg |-> <<>>, join |-> join]
        /\ an_result' = CalcAutocorTable(an_data)
        /\ dataframes' = JoinDataframes(CalcAutocorTable(an_data), join,
                                        dataframes)
    /\ UNCHANGED <<obsVars, an_data, an_given, an_interval>>

AnNext ==
    \/ Construct
    \/ DoFindMin
    \/ DoFindMax
    \/ DoFindExtremes
    \/ DoDifferentiate
    \/ DoCalcMovavg
    \/ DoCalcAutocor

AnSpec == AnInit /\ [][AnNext]_vars

\* ------------------------------------------------------------------------
\* Properties
\* ------------------------------------------------------------------------

\* C1: a start() made while the observer holds a session raises
\* AlreadyRunning, creates no thread and no token, and leaves the session
\* (thread, token, worker, buffer) and the sink as they were.
C1_StartRejected ==
    [][(/\ thread # 0
        /\ result' \in {"AlreadyRunning", "started", "SpawnFailed"}
        /\ (result' # result \/ nsessions' # nsessions))
       => /\ result' = "AlreadyRunning"
          /\ UNCHANGED <<thread, stop_token, is_stopped, nsessions, cpc, wpc,
                         window, token, data, last_data, write_str, written,
                         sink>>]_vars

C1_Witness ==
    /\ result = "AlreadyRunning"
    /\ thread # 0
    /\ wpc[thread] \in {"check", "fetch", "append", "write", "sleep"}
    /\ Len(data[thread]) >= 2

\* C2: no call of stop() raises, whoever makes it: neither a call of the
\* controller nor the call a worker makes from its error handler.
C2_StopNeverRaises ==
    /\ result # "StopRaised"
    /\ \A w \in Workers : raised[w] # "JoinSelf"

\* C3: every worker whose session stop() has cleared has terminated, and
\* from then on it takes no step and appends no line to the sink.
C3_StopSynchronous ==
    [][\A w \in Workers :
        /\ (w <= nsessions' /\ thread' # w)
              => wpc'[w] \in {"exited", "crashed"}
        /\ (w <= nsessions /\ thread # w)
              => /\ wpc'[w] = wpc[w]
                 /\ (sink' = sink \/ Last(sink') # w)]_vars

C3_Witness ==
    /\ result = "stopped"
    /\ thread = 0
    /\ \E w \in Workers :
        /\ wpc[w] = "exited"
        /\ \E i \in 1..Len(sink) : sink[i] = w

\* C4: a worker that its error handler has ended is no longer the thread
\* the observer holds.
C4_NoSessionAfterCrash ==
    \A w \in Workers : (wpc[w] = "crashed" /\ error[w] # "") => thread # w

\* C5: a worker that its error handler has ended has logged the fatal
\* error and has raised that same error out of __run.
C5_LogThenReraise ==
    \A w \in Workers :
        (wpc[w] = "crashed" /\ error[w] # "")
            => (logged[w] /\ raised[w] = error[w])

\* C6: the timestamps of every buffer are strictly increasing.
C6_BufferIncreasing ==
    \A w \in Workers :
        \A i \in 1..(Len(data[w]) - 1) : data[w][i].ts < data[w][i + 1].ts

\* C7: a cycle that fetched the timestamp the previous cycle fetched has
\* not grown the buffer and has not computed the line, and the line it
\* writes is the line the previous cycle wrote.
C7_SameTimestampReusesLine ==
    [][\A w \in Workers :
        (wpc[w] = "write" /\ wpc'[w] = "sleep" /\ cyc[w].same)
            => /\ ~cyc[w].grew
               /\ cyc[w].calcs = 0
               /\ written[w] # <<>>
               /\ written'[w] = written[w]
               /\ sink' = Append(sink, w)]_vars

C7_Witness ==
    \E w \in Workers :
        /\ wpc[w] = "sleep"
        /\ cyc[w].same
        /\ Len(sink) >= 2
        /\ sink[Len(sink)] = w
        /\ sink[Len(sink) - 1] = w

\* C8: every line written is the summary of the buffer as it is at the
\* write; a cycle computes the line if the buffer grew, and only if the
\* buffer grew or no line was cached.
C8_LineMatchesBuffer ==
    [][\A w \in Workers :
        (wpc[w] = "write" /\ wpc'[w] = "sleep")
            => /\ sink' = Append(sink, w)
               /\ written'[w] =
                    <<CalcWriteStr(data[w], ConvertStrToSec(interval_str),
                                   window[w])>>
               /\ (cyc[w].grew => cyc[w].calcs > 0)
               /\ (cyc[w].calcs > 0 => (cyc[w].grew \/ ~cyc[w].cached))]_vars

C8_Witness ==
    \E w \in Workers :
        /\ wpc[w] = "sleep"
        /\ cyc[w].cached
        /\ cyc[w].grew
        /\ Len(sink) >= 2
        /\ sink[Len(sink)] = w
        /\ written[w] = <<CalcWriteStr(data[w], ConvertStrToSec(interval_str),
                                       window[w])>>

\* C9: a start() that follows a stop() that has returned is not rejected
\* with AlreadyRunning; the observer holds no thread before it, and the
\* worker it spawns runs with a new token that is not stopped.
C9_RestartAfterStop ==
    [][(/\ result = "stopped"
        /\ cpc = "idle"
        /\ result' \in {"AlreadyRunning", "started", "SpawnFailed"})
       => /\ thread = 0
          /\ result' # "AlreadyRunning"
          /\ (result' = "started"
                => /\ thread' = nsessions + 1
                   /\ wpc'[thread'] = "begin"
                   /\ token'[thread'] = stop_token'
                   /\ stop_token' # stop_token
                   /\ ~is_stopped'[stop_token'])]_vars

C9_Witness ==
    /\ result = "started"
    /\ nsessions >= 2
    /\ thread = nsessions
    /\ wpc[thread] = "fetch"
    /\ ~is_stopped[token[thread]]
    /\ is_stopped[1]

\* C10: a worker whose error handler has been entered is in that handler
\* or has ended; it fetches nothing and writes nothing any more, and after
\* a failed initial load it has fetched no sample and written no line.
C10_FatalNoRetry ==
    [][\A w \in Workers :
        error[w] # ""
            => /\ wpc[w] \in {"istop", "crashed"}
               /\ wpc'[w] \in {"istop", "crashed"}
               /\ npolls' = npolls \/ wpc[w] # "fetch"
               /\ (sink' = sink \/ Last(sink') # w)
               /\ (error[w] = "InitLoad"
                     => /\ last_data[w] = <<>>
                        /\ \A i \in 1..Len(sink) : sink[i] # w)]_vars

C10_Witness ==
    \E w \in Workers :
        /\ wpc[w] = "crashed"
        /\ error[w] = "LastLoad"
        /\ \E i \in 1..Len(sink) : sink[i] = w

\* C11: at most one worker thread is alive at any time, and a worker that
\* is alive is the thread the observer holds, running with the token the
\* observer holds.
C11_SingleLiveWorker ==
    /\ Cardinality({w \in Workers :
            wpc[w] \notin {"unborn", "unstarted", "exited", "crashed"}}) <= 1
    /\ \A w \in Workers :
            wpc[w] \notin {"unborn", "unstarted", "exited", "crashed"}
                => (thread = w /\ stop_token = token[w])

C11_Witness ==
    /\ wpc[1] = "crashed"
    /\ nsessions >= 2
    /\ wpc[2] \in {"fetch", "append", "write", "sleep"}
    /\ thread = 2

\* C12: the token is read only by the loop test.  A worker that finds its
\* token set at the test exits there, and a worker exits normally nowhere
\* else.  While its token is set a worker only moves forward through the
\* iteration in progress (fetch, append, write, sleep, test) and never back
\* to its start, get_last_data is called only by leaving the fetch and a
\* line is appended only by leaving the write, so at most one more call and
\* one more line follow.  A stop() that has set the token and reached its
\* join eventually returns, with the worker it stopped terminated.
C12_Cancellation ==
    /\ [][\A w \in Workers :
            /\ (wpc[w] = "check" /\ is_stopped[token[w]] /\ wpc'[w] # "check")
                  => wpc'[w] = "exited"
            /\ (wpc[w] # "exited" /\ wpc'[w] = "exited")
                  => (wpc[w] = "check" /\ is_stopped[token[w]])
            /\ (/\ wpc[w] \notin {"unborn", "unstarted", "exited", "crashed"}
                /\ is_stopped[token[w]]
                /\ wpc'[w] # wpc[w])
                  => /\ Rank(wpc'[w]) > Rank(wpc[w])
                     /\ is_stopped'[w]
                     /\ npolls' # npolls => wpc[w] = "fetch"
                     /\ sink' # sink
                           => (wpc[w] = "write" /\ sink' = Append(sink, w))
            /\ (wpc'[w] = wpc[w] /\ wpc[w] # "unborn")
                  => (sink' = sink \/ Last(sink') # w)]_vars
    /\ [][npolls' # npolls
            => \E w \in Workers : wpc[w] = "fetch" /\ wpc'[w] # "fetch"]_vars
    /\ (cpc = "joining")
          ~> (/\ cpc = "idle"
              /\ result = "stopped"
              /\ \A w \in Workers :
                    is_stopped[w]
                        => wpc[w] \in {"unstarted", "exited", "crashed"})

C12_Witness ==
    \E w \in Workers :
        /\ wpc[w] = "sleep"
        /\ is_stopped[token[w]]
        /\ cyc[w].grew
        /\ sink # <<>>
        /\ Last(sink) = w
        /\ cpc = "joining"

\* C13: find_extremes with local scope never raises; its rows are exactly
\* the interior indices i at which value[i] <= both neighbours or
\* value[i] >= both neighbours, each once, with the timestamp and value of
\* i, tagged Min when the first predicate holds (also on a plateau, where
\* both hold) and Max otherwise, in increasing index order.
C13_LocalExtremes ==
    (an_call.op = "find_extremes" /\ an_call.arg = FALSE)
        => LET n == Len(an_data)
               rows == an_result.rows
               Val(i) == an_data[i + 1].val
               IsMin(i) == Val(i) <= Val(i - 1) /\ Val(i) <= Val(i + 1)
               IsMax(i) == Val(i) >= Val(i - 1) /\ Val(i) >= Val(i + 1)
               Interior == 1..(n - 2)
           IN  /\ an_result.kind = "ok"
               /\ \A k \in 1..Len(rows) :
                    \E i \in Interior :
                        /\ IsMin(i) \/ IsMax(i)
                        /\ rows[k] =
                             [ts |-> an_data[i + 1].ts, v |-> Val(i),
                              type |-> IF IsMin(i) THEN "Min" ELSE "Max"]
               /\ \A i \in Interior :
                    (IsMin(i) \/ IsMax(i))
                        => Cardinality({k \in 1..Len(rows) :
                                rows[k].ts = an_data[i + 1].ts}) = 1
               /\ \A k \in 1..(Len(rows) - 1) : rows[k].ts < rows[k + 1].ts

C13_Witness ==
    /\ an_call.op = "find_extremes"
    /\ an_call.arg = FALSE
    /\ Len(an_data) >= 4
    /\ Len(an_result.rows) = 2
    /\ an_result.rows[1].type = "Min"
    /\ an_result.rows[1].v = an_data[1].val
    /\ an_result.rows[1].v = an_data[3].val
    /\ an_result.rows[2].type = "Max"

\* C14: calc_movavg with a count window k >= 1 returns one row per row of
\* the series, on its timestamps, whose value at row i is the sum of the
\* values of rows max(first, i-k+1)..i divided by their number; with an
\* integer window k < 1 it raises ValueError and returns nothing.
C14_CountWindow ==
    (an_call.op = "calc_movavg" /\ an_call.arg[1] = "int")
        => LET n == Len(an_data)
               k == an_call.arg[2]
               rows == an_result.rows
           IN  IF k < 1
               THEN an_result = [kind |-> "ValueError", rows |-> <<>>]
               ELSE /\ an_result.kind = "ok"
                    /\ Len(rows) = n
                    /\ \A i \in 1..n :
                        LET lo == IF i - k + 1 < 1 THEN 1 ELSE i - k + 1
                            total == RSum([j \in 1..(i - lo + 1) |->
                                        RInt(an_data[lo + j - 1].val)])[1]
                        IN  /\ rows[i].ts = an_data[i].ts
                            /\ rows[i].v[2] > 0
                            /\ rows[i].v[1] * (i - lo + 1)
                                  = rows[i].v[2] * total

C14_Witness ==
    /\ an_call.op = "calc_movavg"
    /\ an_call.arg = <<"int", 2>>
    /\ Len(an_data) >= 3
    /\ an_result.kind = "ok"
    /\ an_result.rows[1].v = RInt(an_data[1].val)
    /\ an_result.rows[3].v[2] = 2
    /\ an_data[3].val > an_data[1].val

\* C15: calc_movavg with a duration window D never raises, whatever D is;
\* it returns one row per row of the series, whose value at row i is the
\* average of exactly the rows j <= i with timestamp[i] - timestamp[j] <= D;
\* row i is always one of them, and the first value is value[first].
C15_DurationWindow ==
    (an_call.op = "calc_movavg" /\ an_call.arg[1] = "td")
        => LET n == Len(an_data)
               D == an_call.arg[2]
               rows == an_result.rows
               Win(i) == {j \in 1..i : an_data[i].ts - an_data[j].ts <= D}
           IN  /\ an_result.kind = "ok"
               /\ Len(rows) = n
               /\ \A i \in 1..n :
                    LET total == RSum([j \in 1..i |->
                                    RInt(IF j \in Win(i) THEN an_data[j].val
                                         ELSE 0)])[1]
                    IN  /\ i \in Win(i)
                        /\ rows[i].ts = an_data[i].ts
                        /\ rows[i].v[1] * Cardinality(Win(i))
                              = rows[i].v[2] * total
               /\ n >= 1 => rows[1].v = RInt(an_data[1].val)

\* C16: differentiate on a series of n >= 2 rows returns n-1 rows, row i
\* on the timestamp of row i, with value (value[i+1] - value[i]) divided
\* by the number of base intervals between rows i and i+1; the base
\* interval of an analyser built with no interval is the smallest gap
\* between consecutive timestamps; on a series whose gaps all equal the
\* base interval each value is value[i+1] - value[i] and the values sum to
\* value[last] - value[first].
C16_Differentiate ==
    (an_call.op = "differentiate" /\ Len(an_data) >= 2)
        => LET n == Len(an_data)
               rows == an_result.rows
               base == an_interval
               Gap(i) == an_data[i + 1].ts - an_data[i].ts
               Step(i) == an_data[i + 1].val - an_data[i].val
           IN  /\ an_result.kind = "ok"
               /\ Len(rows) = n - 1
               /\ an_given = 0
                    => /\ \A i \in 1..(n - 1) : base <= Gap(i)
                       /\ \E i \in 1..(n - 1) : base = Gap(i)
               /\ \A i \in 1..(n - 1) :
                    /\ rows[i].ts = an_data[i].ts
                    /\ rows[i].v.fin
                    /\ rows[i].v.v[2] > 0
                    /\ rows[i].v.v[1] * Gap(i)
                          = rows[i].v.v[2] * Step(i) * base
               /\ (\A i \in 1..(n - 1) : Gap(i) = base)
                    => /\ \A i \in 1..(n - 1) : rows[i].v.v = RInt(Step(i))
                       /\ RSum([i \in 1..(n - 1) |-> rows[i].v.v])
                            = RInt(an_data[n].val - an_data[1].val)

C16_Witness ==
    /\ an_call.op = "differentiate"
    /\ an_given = 0
    /\ Len(an_data) >= 3
    /\ an_data[2].ts - an_data[1].ts > an_data[3].ts - an_data[2].ts
    /\ an_result.kind = "ok"
    /\ an_result.rows[1].v.v[2] = 2
    /\ an_result.rows[2].v.v = RInt(an_data[3].val - an_data[2].val)

\* C17: calc_autocor on a series of n >= 2 rows returns n-1 rows, one per
\* lag l = 0..n-2 on the timestamp of row l; with x = value[l:n] and
\* y = value[0:n-l], both of nonzero variance, the entry of lag l is
\* (mean(x*y) - mean(x)*mean(y)) / (std(x)*std(y)), stated here on the sums
\* of the m = n-l pairs: its sign is the sign of m*Sxy - Sx*Sy and its
\* square is (m*Sxy - Sx*Sy)^2 / ((m*Sxx - Sx^2)*(m*Syy - Sy^2)); the entry
\* of lag 0 is 1 when the series is not constant.
C17_Autocor ==
    (an_call.op = "calc_autocor" /\ Len(an_data) >= 2)
        => LET n == Len(an_data)
               rows == an_result.rows
           IN  /\ an_result.kind = "ok"
               /\ Len(rows) = n - 1
               /\ \A l \in 0..(n - 2) :
                    LET m == n - l
                        X(j) == an_data[l + j].val
                        Y(j) == an_data[j].val
                        Sx == RSum([j \in 1..m |-> RInt(X(j))])[1]
                        Sy == RSum([j \in 1..m |-> RInt(Y(j))])[1]
                        Sxy == RSum([j \in 1..m |-> RInt(X(j) * Y(j))])[1]
                        Sxx == RSum([j \in 1..m |-> RInt(X(j) * X(j))])[1]
                        Syy == RSum([j \in 1..m |-> RInt(Y(j) * Y(j))])[1]
                        C == m * Sxy - Sx * Sy
                        Vx == m * Sxx - Sx * Sx
                        Vy == m * Syy - Sy * Sy
                    IN  /\ rows[l + 1].ts = an_data[l + 1].ts
                        /\ (Vx # 0 /\ Vy # 0)
                              => rows[l + 1].v =
                                    [nan |-> FALSE, sgn |-> Sgn(C),
                                     sq |-> RNorm(C * C, Vx * Vy)]
               /\ (\E i \in 1..n : an_data[i].val # an_data[1].val)
                    => rows[1].v = [nan |-> FALSE, sgn |-> 1, sq |-> RInt(1)]

C17_Witness ==
    /\ an_call.op = "calc_autocor"
    /\ Len(an_data) >= 4
    /\ an_result.kind = "ok"
    /\ an_result.rows[1].v = [nan |-> FALSE, sgn |-> 1, sq |-> RInt(1)]
    /\ ~an_result.rows[2].v.nan
    /\ an_result.rows[2].v.sgn = -1
    /\ an_result.rows[2].v.sq[2] > 1

\* C18: calc_autocor on a series with rows never raises and returns an
\* entry for every lag; the entry of a lag is NaN exactly when x or y of
\* that lag is constant (zero variance), and a finite number otherwise.
C18_AutocorNaN ==
    (an_call.op = "calc_autocor" /\ Len(an_data) >= 1)
        => LET n == Len(an_data)
               rows == an_result.rows
               Flat(a, b) ==
                   \A i \in a..b : an_data[i].val = an_data[a].val
           IN  /\ an_result.kind = "ok"
               /\ Len(rows) = n - 1
               /\ \A l \in 0..(n - 2) :
                    /\ rows[l + 1].v.nan <=> (Flat(l + 1, n) \/ Flat(1, n - l))
                    /\ ~rows[l + 1].v.nan
                          => /\ rows[l + 1].v.sgn \in {-1, 0, 1}
                             /\ rows[l + 1].v.sq[2] > 0
                             /\ rows[l + 1].v.sq[1] <= rows[l + 1].v.sq[2]

C18_Witness ==
    /\ an_call.op = "calc_autocor"
    /\ Len(an_data) >= 4
    /\ an_result.kind = "ok"
    /\ an_data[1].val = an_data[2].val
    /\ an_data[2].val = an_data[3].val
    /\ an_data[3].val # an_data[4].val
    /\ ~an_result.rows[1].v.nan
    /\ an_result.rows[2].v.nan
    /\ an_result.rows[3].v.nan

\* C19: on a series too short for it an operation raises ValueError
\* (InvalidArgument) and nothing else: the constructor, differentiate and
\* calc_autocor on fewer than two rows, find_min, find_max and
\* find_extremes on no rows; none returns a table and none raises another
\* exception.
C19_TooShort ==
    LET n == Len(an_data)
        short ==
            \/ an_call.op \in {"differentiate", "calc_autocor"} /\ n < 2
            \/ an_call.op \in {"find_min", "find_max", "find_extremes"}
                  /\ n = 0
    IN  /\ short => an_result.kind = "ValueError"
        /\ (an_call.op = "__init__" /\ n < 2)
              => an_result.kind \in {"ok", "ValueError"}

\* C20: on a series with rows, find_min (find_max) returns exactly one
\* row: the timestamp and value of the first index that holds the smallest
\* (largest) value of the column; find_extremes with global scope returns
\* these two rows, the minimum first tagged Min, the maximum second tagged
\* Max.
C20_GlobalExtremes ==
    LET n == Len(an_data)
        rows == an_result.rows
        MinAt(i) ==
            /\ \A j \in 1..n : an_data[i].val <= an_data[j].val
            /\ \A j \in 1..(i - 1) : an_data[j].val # an_data[i].val
        MaxAt(i) ==
            /\ \A j \in 1..n : an_data[i].val >= an_data[j].val
            /\ \A j \in 1..(i - 1) : an_data[j].val # an_data[i].val
    IN  n >= 1
          => /\ an_call.op = "find_min"
                  => /\ an_result.kind = "ok"
                     /\ Len(rows) = 1
                     /\ \E i \in 1..n :
                          /\ MinAt(i)
                          /\ rows[1] = [ts |-> an_data[i].ts,
                                        v |-> an_data[i].val]
             /\ an_call.op = "find_max"
                  => /\ an_result.kind = "ok"
                     /\ Len(rows) = 1
                     /\ \E i \in 1..n :
                          /\ MaxAt(i)
                          /\ rows[1] = [ts |-> an_data[i].ts,
                                        v |-> an_data[i].val]
             /\ (an_call.op = "find_extremes" /\ an_call.arg = TRUE)
                  => /\ an_result.kind = "ok"
                     /\ Len(rows) = 2
                     /\ \E i \in 1..n :
                          /\ MinAt(i)
                          /\ rows[1] = [ts |-> an_data[i].ts,
                                        v |-> an_data[i].val, type |-> "Min"]
                     /\ \E i \in 1..n :
                          /\ MaxAt(i)
                          /\ rows[2] = [ts |-> an_data[i].ts,
                                        v |-> an_data[i].val, type |-> "Max"]

C20_Witness ==
    /\ an_call.op = "find_extremes"
    /\ an_call.arg = TRUE
    /\ Len(an_data) >= 4
    /\ an_data[1].val = an_data[3].val
    /\ an_data[2].val = an_data[4].val
    /\ an_data[1].val > an_data[2].val
    /\ an_result.rows[1].ts = an_data[2].ts
    /\ an_result.rows[2].ts = an_data[1].ts

\* C21: on a series of two or more rows whose consecutive timestamps are
\* all s apart, calc_movavg with the duration window (k-1)*s, k >= 1,
\* returns the table calc_movavg returns with the count window k: the same
\* rows with the same values.
C21_DurationEqualsCount ==
    (/\ an_call.op = "calc_movavg"
     /\ an_call.arg[1] = "td"
     /\ Len(an_data) >= 2)
        => LET n == Len(an_data)
               s == an_data[2].ts - an_data[1].ts
               D == an_call.arg[2]
           IN  (/\ \A i \in 2..n : an_data[i].ts - an_data[i - 1].ts = s
                /\ D >= 0
                /\ D % s = 0)
                   => /\ an_result.kind = "ok"
                      /\ an_result = CalcMovavg(an_data, <<"int", (D \div s) + 1>>)

C21_Witness ==
    /\ an_call.op = "calc_movavg"
    /\ an_call.arg = <<"td", 2>>
    /\ Len(an_data) = 4
    /\ \A i \in 2..4 : an_data[i].ts - an_data[i - 1].ts = 1
    /\ an_data[1].val # an_data[4].val
    /\ an_result.kind = "ok"
    /\ an_result.rows[4].v
          = RNorm(an_data[2].val + an_data[3].val + an_data[4].val, 3)
    /\ an_result = CalcMovavg(an_data, <<"int", 3>>)

\* C22: on a series of three or more rows whose values are strictly
\* increasing, or strictly decreasing, find_extremes with local scope
\* returns a table with no rows.
C22_MonotoneNoLocalExtremes ==
    (/\ an_call.op = "find_extremes"
     /\ an_call.arg = FALSE
     /\ Len(an_data) >= 3
     /\ \/ \A i \in 2..Len(an_data) : an_data[i - 1].val < an_data[i].val
        \/ \A i \in 2..Len(an_data) : an_data[i - 1].val > an_data[i].val)
        => an_result = [kind |-> "ok", rows |-> <<>>]

C22_Witness ==
    /\ an_call.op = "find_extremes"
    /\ an_call.arg = FALSE
    /\ Len(an_data) = 3
    /\ an_data[1].val > an_data[2].val
    /\ an_data[2].val > an_data[3].val
    /\ an_result = [kind |-> "ok", rows |-> <<>>]

\* C23: on a series of n >= 3 rows whose values form an arithmetic
\* progression with a positive step, calc_autocor returns the value 1 at
\* every lag 0..n-2: a finite entry with positive sign whose square is 1,
\* that is, a positive covariance whose square equals var(x)*var(y).
C23_LinearAutocorOne ==
    (/\ an_call.op = "calc_autocor"
     /\ Len(an_data) >= 3
     /\ an_data[2].val > an_data[1].val
     /\ \A i \in 2..Len(an_data) :
            an_data[i].val - an_data[i - 1].val
                = an_data[2].val - an_data[1].val)
        => /\ an_result.kind = "ok"
           /\ Len(an_result.rows) = Len(an_data) - 1
           /\ \A l \in 1..(Len(an_data) - 1) :
                an_result.rows[l].v = [nan |-> FALSE, sgn |-> 1, sq |-> <<1, 1>>]

C23_Witness ==
    /\ an_call.op = "calc_autocor"
    /\ Len(an_data) = 3
    /\ \A i \in 1..3 : an_data[i].val = i
    /\ an_result.kind = "ok"
    /\ Len(an_result.rows) = 2
    /\ an_result.rows[1].v = [nan |-> FALSE, sgn |-> 1, sq |-> <<1, 1>>]
    /\ an_result.rows[2].v = [nan |-> FALSE, sgn |-> 1, sq |-> <<1, 1>>]

\* C24: a call of find_min, find_max, find_extremes, differentiate,
\* calc_movavg or calc_autocor, whatever its arguments, changes nothing but
\* its return value: the table and the base interval of the analyser and
\* the list of tables shared by all analysers (JoinedDataframe) are after
\* the call what they were before it.
C24_NoSideEffects ==
    [][an_call'.op \in {"find_min", "find_max", "find_extremes",
                        "differentiate", "calc_movavg", "calc_autocor"}
          => /\ an_data' = an_data
             /\ an_interval' = an_interval
             /\ dataframes' = dataframes]_vars

\* C25: a StopToken is created not stopped and only ever goes from not
\* stopped to stopped: a token that is stopped stays stopped in every later
\* state, whatever is called (a second stop() included); a token changes
\* only in a step that calls stop() on it, by the controller's stop() or by
\* the stop() of a worker's handler; and the loop test, which reads
\* is_stopped, changes no token.
C25_TokenOneWay ==
    [][\A t \in Workers :
          /\ is_stopped[t] => is_stopped'[t]
          /\ (nsessions < t /\ nsessions' >= t) => ~is_stopped'[t]
          /\ (nsessions >= t /\ is_stopped'[t] # is_stopped[t])
                => /\ stop_token = t
                   /\ thread # 0
                   /\ \/ cpc = "idle" /\ wpc' = wpc
                      \/ \E w \in Workers : wpc[w] = "istop" /\ wpc'[w] # "istop"
          /\ (wpc[t] = "check" /\ wpc'[t] # "check")
                => is_stopped' = is_stopped]_vars

\* A worker's handler has called stop() on the token of its session, and
\* after that the controller's stop() has called it again and returned.
C25_Witness ==
    \E t \in Workers :
        /\ stop_token = t
        /\ raised[t] = "JoinSelf"
        /\ result = "stopped"
        /\ thread = 0
        /\ is_stopped[t]

\* C26: a worker that ended on an error that is not an I/O failure (the
\* conversion of the poll interval at its start, or the recomputation of
\* the line after an append) has had its StopToken set and its session
\* stopped, the observer no longer holding its thread, before the error
\* left it.
C26_NonIOFatalHandled ==
    \A w \in Workers :
        (wpc[w] = "crashed" /\ raised[w] \in {"Convert", "Calc"})
            => /\ is_stopped[w]
               /\ thread # w

\* C27: in a poll cycle the chain of the analyser is run at most once, and
\* never before the conditional append: a worker that has fetched and
\* stands before the append has not run the chain in this cycle, and a
\* worker anywhere in a cycle has run it at most once.
C27_ChainOncePerCycle ==
    \A w \in Workers :
        /\ cyc[w].calcs <= 1
        /\ wpc[w] = "append" => cyc[w].calcs = 0

\* C28: the Autocor field of the line a worker holds, the line it writes, is
\* fixed by the first two and the last two values of the moving average of
\* its buffer: it is NaN when the first two are equal or the last two are
\* equal, and otherwise +1 or -1, the product of the signs of the two
\* steps; no other value of the moving average has a part in it.
C28_AutocorField ==
    \A w \in Workers :
        write_str[w] # <<>>
            => LET n == Len(data[w])
                   m == CalcMovavgInt(Column(data[w]), window[w])
                   a == write_str[w][1].autocor
                   up(p, q) == Sgn(q[1] * p[2] - p[1] * q[2])
               IN  /\ n >= 2
                   /\ IF up(m[1], m[2]) = 0 \/ up(m[n - 1], m[n]) = 0
                      THEN a.nan
                      ELSE /\ ~a.nan
                           /\ a.sq = <<1, 1>>
                           /\ a.sgn = up(m[1], m[2]) * up(m[n - 1], m[n])

C28_Witness ==
    \E w \in Workers :
        /\ wpc[w] = "sleep"
        /\ Len(data[w]) = 4
        /\ written[w] # <<>>
        /\ written[w] = write_str[w]
        /\ written[w][1].autocor = [nan |-> FALSE, sgn |-> -1, sq |-> <<1, 1>>]

\* C29: a start() that failed to spawn its worker leaves the observer
\* without a session: once it has raised, the observer holds no thread,
\* and no worker exists that was created but never started while the
\* observer still holds it (the state in which the next start() is
\* rejected as already running and the next stop() raises from its join).
C29_SpawnFailureNoSession ==
    /\ (cpc = "idle" /\ result = "SpawnFailed") => thread = 0
    /\ \A w \in Workers : wpc[w] = "unstarted" => thread # w

====
